---------------------------- MODULE Spec2Model ----------------------------
(***************************************************************************)
(* A model of build.rs, the build script that downloads the grammars       *)
(* listed in grammars.toml, verifies their SHA-256, generates one lexer    *)
(* DFA per grammar and prints the extension -> DFA dispatch table.          *)
(*                                                                         *)
(* Fault model.  The environment may fail: the network transfer, the read  *)
(* of the manifest, the open/read of a cached file, the creation and the   *)
(* write of the cache file, the write of a generated file and the creation *)
(* of the dispatch table file.  create_dir_all and the buffered writeln!   *)
(* calls on an already created file are modelled as succeeding.            *)
(***************************************************************************)
EXTENDS Naturals, Sequences, FiniteSets, TLC

\* Number of consecutive runs of the build script over the same OUT_DIR.
MaxBuilds == 2

(***************************************************************************)
(* Values                                                                  *)
(***************************************************************************)

\* Keys of the manifest table (grammar names).
Names == {"a", "b"}
\* A TOML key is any string: "./a" is a key too, and a path when joined.
DottedNames == {"./a"}
AllNames == Names \cup DottedNames

\* A file name is kept as its stem and its extension (Path::file_stem splits
\* at the last dot).
JsonG4 == [stem |-> "json", ext |-> "g4"]
CG4 == [stem |-> "c", ext |-> "g4"]
FileNames == {JsonG4, CG4}

\* URLs: a host and the path segments.
Url1 == [host |-> "x", segs |-> <<JsonG4>>]
Url2 == [host |-> "y", segs |-> <<[stem |-> "grammars", ext |-> ""], CG4>>]
Urls == {Url1, Url2}

\* File contents.  "G" is a well-formed grammar, "B" is a byte string that is
\* no grammar, "T" is a truncated (partially written) file.
Contents == {"G", "B", "T"}
RemoteContents == {"G", "B"}
\* What a transfer can yield: a body, or a transport error.
Responses == RemoteContents \cup {"NetErr"}
\* What can be found at a path of the cache.
FileStates == Contents \cup {"Missing", "Unreadable"}
InitFileStates == {"Missing", "Unreadable", "G", "B"}

\* Characters of extension strings, by name: two ASCII letters, a non-ASCII
\* letter (U+00E9, e with acute accent) and an ASCII punctuation mark.
AsciiAlnum == {"c", "h"}
UnicodeLetters == {"U+00E9"}
Chars == AsciiAlnum \cup UnicodeLetters \cup {"+"}

\* Extension strings are sequences of characters.
ExtC == <<"c">>
ExtH == <<"h">>
ExtCpp == <<"c", "+", "+">>
ExtE == <<"U+00E9">>
\* The extension lists a manifest entry may declare (Vec<String>; an
\* extension repeated in one entry inserts the same pair twice).
ExtLists == {{}, {ExtC}, {ExtC, ExtH}, {ExtC, ExtCpp}, {ExtE}}
ExtStrings == UNION ExtLists

\* The digests a manifest may declare (lowercase hex, the way they are
\* compared), written short.
Hashes == {"1a", "2b"}

NoErr == [variant |-> "None", kind |-> "", msg |-> <<>>]

(***************************************************************************)
(* Pure functions                                                          *)
(***************************************************************************)

Range(s) == {s[i] : i \in DOMAIN s}

\* format!("{:x}", Sha256::digest(data)): injective on the contents used.
Sha256Hex(data) ==
    CASE data = "G" -> "1a"
      [] data = "B" -> "2b"
      [] data = "T" -> "3c"

\* Path::new(url).file_name(): the final path segment.
FileNameOf(url) == url.segs[Len(url.segs)]

\* Path::new(url).file_stem()
FileStemOf(url) == FileNameOf(url).stem

\* The components of a key read as a relative path (Path::components).
Components(key) == IF key = "./a" THEN <<".", "a">> ELSE <<key>>

\* PathBuf::from(dir).join(key), as the place in the file system it names:
\* the components of key are appended, and a "." component names the
\* directory it stands in.
Join(dir, key) == dir \o SelectSeq(Components(key), LAMBDA c : c # ".")

DownloadedDir == <<"downloaded">>
GeneratedDir == <<"generated">>
\* Path::new(&outdir).join("assign_grammars.in")
OutputRustFile == [dir |-> <<>>, file |-> [stem |-> "assign_grammars", ext |-> "in"]]

FilePath(dir, file) == [dir |-> dir, file |-> file]

\* downloaded_langdir.join(filename)
DownloadedFile(key, url) == FilePath(Join(DownloadedDir, key), FileNameOf(url))

\* generated_langdir.join(format!("{}.dfa", filestem))
GeneratedFile(key, url) ==
    FilePath(Join(GeneratedDir, key), [stem |-> FileStemOf(url), ext |-> "dfa"])

CachePaths == {FilePath(Join(DownloadedDir, k), f) : k \in Names, f \in FileNames}
GenPaths ==
    {FilePath(Join(GeneratedDir, k), [stem |-> f.stem, ext |-> "dfa"]) :
        k \in Names, f \in FileNames}

\* char::is_alphanumeric: Unicode letters and digits.
IsAlphanumeric(ch) == ch \in AsciiAlnum \cup UnicodeLetters

\* extension.chars().all(|x| x.is_alphanumeric())
AllAlphanumeric(extension) ==
    \A i \in 1..Len(extension) : IsAlphanumeric(extension[i])

\* Grammar::parse_grammar succeeds on well-formed grammars only.
ParsesAsGrammar(data) == data = "G"

\* Dfa::new(&grammar).as_bytes(): a function of the grammar alone.
EncodedDfa(data) == <<"dfa", data>>


(***************************************************************************)
(* The manifest (grammars.toml)                                            *)
(***************************************************************************)

\* A table of the document as written: the values of url and sha256, and
\* whether each is written as a TOML array (urlArr, shaArr) or as a string.
StringEntries ==
    {[url |-> <<u>>, urlArr |-> FALSE, sha256 |-> <<h>>, shaArr |-> FALSE,
      extensions |-> x] : u \in Urls, h \in Hashes, x \in ExtLists}
\* url = [Url1, Url2], sha256 = ["1a"]: two lists of different lengths.
ArrayEntries ==
    {[url |-> <<Url1, Url2>>, urlArr |-> TRUE, sha256 |-> <<"1a">>,
      shaArr |-> TRUE, extensions |-> {ExtC}]}
RawEntries == StringEntries \cup ArrayEntries
Documents == UNION {[S -> RawEntries] : S \in SUBSET Names}

\* struct GrammarDownload { url: String, sha256: String, extensions }:
\* serde accepts a table only when url and sha256 are strings.
DeserializesAsGrammarDownload(raw) == ~raw.urlArr /\ ~raw.shaArr

GrammarDownload(raw) ==
    [url |-> raw.url[1], sha256 |-> raw.sha256[1], extensions |-> raw.extensions]

\* toml::from_str::<HashMap<String, GrammarDownload>>
TomlOk(table) == \A k \in DOMAIN table : DeserializesAsGrammarDownload(table[k])
TomlFromStr(table) == [k \in DOMAIN table |-> GrammarDownload(table[k])]

(***************************************************************************)
(* Errors (enum BuildScriptError and the std::io::Error it wraps)          *)
(***************************************************************************)

\* From<std::io::Error>
IoError(kind, msg) == [variant |-> "Io", kind |-> kind, msg |-> msg]
\* From<toml::de::Error>
TomlError == [variant |-> "Toml", kind |-> "", msg |-> <<"invalid type">>]
\* From<ParseError>
ParseError == [variant |-> "Parse", kind |-> "", msg |-> <<"syntax error">>]

WrongShaError == IoError("InvalidData", <<"Downloaded file with wrong SHA-256">>)
\* format!("non alphanumeric extension '{}'", extension)
NonAlphanumericError(extension) ==
    IoError("InvalidData", <<"non alphanumeric extension '">> \o extension \o <<"'">>)
\* An error of the operating system or of curl, with its own message.
OsError(what) == IoError("Other", <<what>>)

(***************************************************************************)
(* State                                                                   *)
(***************************************************************************)
VARIABLES
    list,       \* grammars.toml: [readable, table]
    dirs,       \* the directories that exist under OUT_DIR
    cache,      \* downloaded/<key>/<filename>  -> FileStates
    gen,        \* generated/<key>/<stem>.dfa   -> bytes (<<>>: no such file)
    out,        \* assign_grammars.in: [exists, lines]
    pc,         \* where main is
    todo,       \* the keys the loop over the manifest has yet to visit
    cur,        \* the key of the entry being processed
    parsers,    \* the HashMap extension -> generated file
    err,        \* the error main returned with
    netCalls,   \* transfers performed in this build
    dl,         \* the last call of download_file: arguments and outcome
    wrote,      \* files created or written in this build
    mkdirs,     \* directories created in this build
    writes,     \* the files entries wrote in this build, in order: [key, path]
    builds,     \* the number of this build
    prev        \* what the previous build left: [ok, table, gen]

vars == <<list, dirs, cache, gen, out, pc, todo, cur, parsers, err, netCalls,
          dl, wrote, mkdirs, writes, builds, prev>>

EmptyMap == [e \in {} |-> OutputRustFile]
NoFile == <<>>
NoOutput == [exists |-> FALSE, lines |-> <<>>]
NoCall == [called |-> FALSE, key |-> "", url |-> Url1, sha256 |-> "",
           before |-> "Missing", resp |-> "None", gets |-> 0, ok |-> FALSE]
NoPrev == [ok |-> FALSE, table |-> {}, gen |-> [p \in GenPaths |-> NoFile]]

\* The cache paths the manifest as written can address.
AddressedCachePaths(table) ==
    {DownloadedFile(k, table[k].url[1]) : k \in DOMAIN table}

\* The directories a file needs.
ParentDirs(path) == {SubSeq(path.dir, 1, n) : n \in 1..Len(path.dir)}

Init ==
    /\ list \in {[readable |-> TRUE, table |-> t] : t \in Documents}
                  \cup {[readable |-> FALSE, table |-> EmptyMap]}
    /\ cache \in [CachePaths -> InitFileStates]
    /\ \A p \in CachePaths :
          p \notin AddressedCachePaths(list.table) => cache[p] = "Missing"
    /\ dirs = UNION {ParentDirs(p) : p \in {q \in CachePaths : cache[q] # "Missing"}}
    /\ gen = [p \in GenPaths |-> NoFile]
    /\ out = NoOutput
    /\ pc = "start"
    /\ todo = {}
    /\ cur = ""
    /\ parsers = EmptyMap
    /\ err = NoErr
    /\ netCalls = 0
    /\ dl = NoCall
    /\ wrote = {}
    /\ mkdirs = {}
    /\ writes = <<>>
    /\ builds = 1
    /\ prev = NoPrev

(***************************************************************************)
(* download_file                                                           *)
(***************************************************************************)

\* Faulty variant: the error is dropped and the caller goes on.
TryIgnoringErr(ok, next) == next

\* The `?` operator: an Err returns from the function at once, an Ok goes on.
Try(ok, next) == IF ok THEN next ELSE "failed"

\* if let Ok(f) = File::open(..) { if f.read_to_end(..).is_ok() { ... } }
ReadsExisting(before) == before \in Contents

\* Faulty variant: any readable file is taken for the cached download.
CacheHitAnyReadable(before, sha256) == ReadsExisting(before)

\* Faulty variant: the bytes themselves, not their digest, are compared.
CacheHitOnBytes(before, sha256) == ReadsExisting(before) /\ before = sha256

\* result == sha256 on the bytes read from the existing file
CacheHit(before, sha256) == ReadsExisting(before) /\ Sha256Hex(before) = sha256

\* Faulty variant: the downloaded bytes are accepted whatever their digest.
DownloadUnverified(data, sha256) == data \in RemoteContents

\* result == sha256 on the downloaded bytes
DownloadVerified(data, sha256) == Sha256Hex(data) = sha256

\* Faulty variant: a failed or rejected transfer is tried once more.
TransfersWithRetry == 1 + 1

\* The transfers one call performs on the download path: easy.transfer(),
\* transfer.perform(), once.
Transfers == 1

\* Faulty variant: the downloaded bytes are stored before they are verified.
DownloadFileStoredFirst(url, sha256, before, resp, io) ==
    IF CacheHit(before, sha256)
    THEN [ok |-> TRUE, err |-> NoErr, after |-> before, gets |-> 0,
          created |-> FALSE]
    ELSE IF resp = "NetErr"
    THEN [ok |-> FALSE, err |-> OsError("curl"), after |-> before,
          gets |-> Transfers, created |-> FALSE]
    ELSE IF ~DownloadVerified(resp, sha256)
    THEN [ok |-> FALSE, err |-> WrongShaError, after |-> resp,
          gets |-> Transfers, created |-> TRUE]
    ELSE [ok |-> TRUE, err |-> NoErr, after |-> resp, gets |-> Transfers,
          created |-> TRUE]

\* Faulty variant: a verified download is returned without being stored.
DownloadFileNotStored(url, sha256, before, resp, io) ==
    IF CacheHit(before, sha256)
    THEN [ok |-> TRUE, err |-> NoErr, after |-> before, gets |-> 0,
          created |-> FALSE]
    ELSE IF resp = "NetErr"
    THEN [ok |-> FALSE, err |-> OsError("curl"), after |-> before,
          gets |-> Transfers, created |-> FALSE]
    ELSE IF ~DownloadVerified(resp, sha256)
    THEN [ok |-> FALSE, err |-> WrongShaError, after |-> before,
          gets |-> Transfers, created |-> FALSE]
    ELSE [ok |-> TRUE, err |-> NoErr, after |-> before, gets |-> Transfers,
          created |-> FALSE]

\* What download_file(url, sha256, dir) does when it finds `before` at
\* dir/<file name>, the transfer yields `resp` and the file system answers
\* `io` to the write: [ok, err, after, gets, created].
DownloadFile(url, sha256, before, resp, io) ==
    IF CacheHit(before, sha256)
    THEN [ok |-> TRUE, err |-> NoErr, after |-> before, gets |-> 0,
          created |-> FALSE]
    ELSE IF resp = "NetErr"
    THEN [ok |-> FALSE, err |-> OsError("curl"), after |-> before,
          gets |-> Transfers, created |-> FALSE]
    ELSE IF ~DownloadVerified(resp, sha256)
    THEN [ok |-> FALSE, err |-> WrongShaError, after |-> before,
          gets |-> Transfers, created |-> FALSE]
    ELSE CASE io = "Ok" ->
                [ok |-> TRUE, err |-> NoErr, after |-> resp,
                 gets |-> Transfers, created |-> TRUE]
           [] io = "CreateFails" ->
                [ok |-> FALSE, err |-> OsError("create"), after |-> before,
                 gets |-> Transfers, created |-> FALSE]
           [] io = "WriteFails" ->
                [ok |-> FALSE, err |-> OsError("write"), after |-> "T",
                 gets |-> Transfers, created |-> TRUE]

WriteOutcomes == {"Ok", "CreateFails", "WriteFails"}

(***************************************************************************)
(* main                                                                    *)
(***************************************************************************)

Toml == TomlFromStr(list.table)

\* create_dir_all(downloaded_dir); create_dir_all(generated_dir)
MainCreateDirs ==
    /\ pc = "start"
    /\ dirs' = dirs \cup {DownloadedDir, GeneratedDir}
    /\ mkdirs' = mkdirs \cup ({DownloadedDir, GeneratedDir} \ dirs)
    /\ pc' = "load"
    /\ UNCHANGED <<list, cache, gen, out, todo, cur, parsers, err, netCalls,
                   dl, wrote, writes, builds, prev>>

\* download_and_generate_grammars, up to the loop: read and decode the list.
ReadList ==
    /\ pc = "load"
    /\ IF ~list.readable
       THEN /\ pc' = Try(FALSE, "loop")
            /\ err' = OsError("read")
            /\ todo' = {}
       ELSE IF ~TomlOk(list.table)
       THEN /\ pc' = Try(FALSE, "loop")
            /\ err' = TomlError
            /\ todo' = {}
       ELSE /\ pc' = Try(TRUE, "loop")
            /\ err' = NoErr
            /\ todo' = DOMAIN Toml
    /\ parsers' = EmptyMap
    /\ UNCHANGED <<list, dirs, cache, gen, out, cur, netCalls, dl, wrote,
                   mkdirs, writes, builds, prev>>

\* The loop body up to the call of download_file, for the entry the HashMap
\* iterator yields next (any of those left).
FetchEntry(key) ==
    /\ pc = "loop"
    /\ key \in todo
    /\ LET value == Toml[key]
           path == DownloadedFile(key, value.url)
           newdirs == {Join(GeneratedDir, key), Join(DownloadedDir, key)}
       IN \E resp \in Responses, io \in WriteOutcomes :
            LET r == DownloadFile(value.url, value.sha256, cache[path], resp, io)
            IN  /\ cache' = [cache EXCEPT ![path] = r.after]
                /\ netCalls' = netCalls + r.gets
                /\ wrote' = IF r.created THEN wrote \cup {path} ELSE wrote
                /\ writes' = IF r.created
                             THEN Append(writes, [key |-> key, path |-> path])
                             ELSE writes
                /\ dl' = [called |-> TRUE, key |-> key, url |-> value.url,
                          sha256 |-> value.sha256, before |-> cache[path],
                          resp |-> IF r.gets = 0 THEN "None" ELSE resp,
                          gets |-> r.gets, ok |-> r.ok]
                /\ err' = r.err
                /\ pc' = Try(r.ok, "generate")
       /\ dirs' = dirs \cup newdirs
       /\ mkdirs' = mkdirs \cup (newdirs \ dirs)
    /\ cur' = key
    /\ todo' = todo \ {key}
    /\ UNCHANGED <<list, gen, out, parsers, builds, prev>>

\* Faulty variant: an extension already in the map keeps its first file.
InsertKeepingFirst(map, extensions, file) ==
    [e \in DOMAIN map \cup extensions |-> IF e \in DOMAIN map THEN map[e] ELSE file]

\* parsers.insert(extension, generated_file) for each extension of the entry
InsertAll(map, extensions, file) ==
    [e \in DOMAIN map \cup extensions |-> IF e \in extensions THEN file ELSE map[e]]

\* The rest of the loop body: parse the downloaded grammar, build the DFA,
\* write it, record the extensions.
GenerateEntry ==
    /\ pc = "generate"
    /\ LET value == Toml[cur]
           downloaded_file == DownloadedFile(cur, value.url)
           generated_file == GeneratedFile(cur, value.url)
           data == cache[downloaded_file]
       IN IF ~(data \in Contents /\ ParsesAsGrammar(data))
          THEN /\ pc' = Try(FALSE, "loop")
               /\ err' = ParseError
               /\ UNCHANGED <<gen, wrote, writes, parsers>>
          ELSE \E io \in WriteOutcomes :
                 CASE io = "Ok" ->
                        /\ gen' = [gen EXCEPT ![generated_file] = EncodedDfa(data)]
                        /\ wrote' = wrote \cup {generated_file}
                        /\ writes' = Append(writes, [key |-> cur, path |-> generated_file])
                        /\ parsers' = InsertAll(parsers, value.extensions, generated_file)
                        /\ err' = NoErr
                        /\ pc' = Try(TRUE, "loop")
                   [] io = "CreateFails" ->
                        /\ UNCHANGED <<gen, wrote, writes, parsers>>
                        /\ err' = OsError("create")
                        /\ pc' = Try(FALSE, "loop")
                   [] io = "WriteFails" ->
                        /\ gen' = [gen EXCEPT ![generated_file] = <<"dfa">>]
                        /\ wrote' = wrote \cup {generated_file}
                        /\ writes' = Append(writes, [key |-> cur, path |-> generated_file])
                        /\ UNCHANGED parsers
                        /\ err' = OsError("write")
                        /\ pc' = Try(FALSE, "loop")
    /\ UNCHANGED <<list, dirs, cache, out, todo, cur, netCalls, dl, mkdirs,
                   builds, prev>>

(***************************************************************************)
(* print_grammar_assignment                                                *)
(***************************************************************************)

Line(kind) == [kind |-> kind, extension |-> <<>>, dfa_bytes |-> OutputRustFile]
\* writeln!(f, "        \"{}\" => include_bytes!(\"{}\"),", extension, dfa_bytes)
Arm(extension, dfa_bytes) ==
    [kind |-> "arm", extension |-> extension, dfa_bytes |-> dfa_bytes]

Header == <<Line("doc1"), Line("doc2"), Line("fn"), Line("match")>>
Footer == <<Line("default"), Line("close")>>

\* The orders in which HashMap::into_iter may yield the keys of a map.
IterationOrders(map) ==
    {s \in [1..Cardinality(DOMAIN map) -> DOMAIN map] : Range(s) = DOMAIN map}

\* The position of the first extension of the order that is rejected, or 0.
FirstRejected(order) ==
    IF \E i \in DOMAIN order : ~AllAlphanumeric(order[i])
    THEN CHOOSE i \in DOMAIN order :
            /\ ~AllAlphanumeric(order[i])
            /\ \A j \in 1..(i - 1) : AllAlphanumeric(order[j])
    ELSE 0

Arms(dfa_map, order, n) == [i \in 1..n |-> Arm(order[i], dfa_map[order[i]])]

\* What print_grammar_assignment(dfa_map, output) leaves in the output file
\* and returns, the map being iterated in `order`; `created` is whether
\* File::create succeeded.
PrintGrammarAssignment(dfa_map, order, created, before) ==
    IF ~created
    THEN [ok |-> FALSE, err |-> OsError("create table"), file |-> before]
    ELSE LET bad == FirstRejected(order)
         IN IF bad = 0
            THEN [ok |-> TRUE, err |-> NoErr,
                  file |-> [exists |-> TRUE,
                            lines |-> Header \o Arms(dfa_map, order, Len(order))
                                             \o Footer]]
            ELSE [ok |-> FALSE, err |-> NonAlphanumericError(order[bad]),
                  file |-> [exists |-> TRUE,
                            lines |-> Header \o Arms(dfa_map, order, bad - 1)]]

\* Faulty variant: the function returns the map from inside the loop.
LoopLeftEarly(left) == TRUE

\* for (key, value) in toml { .. } ends when the iterator has no entry left.
LoopOver(left) == left = {}

\* The loop is over: download_and_generate_grammars returns the map and
\* main calls print_grammar_assignment.
PrintTable ==
    /\ pc = "loop"
    /\ LoopOver(todo)
    /\ \E order \in IterationOrders(parsers), created \in BOOLEAN :
         LET r == PrintGrammarAssignment(parsers, order, created, out)
         IN /\ out' = r.file
            /\ wrote' = IF created THEN wrote \cup {OutputRustFile} ELSE wrote
            /\ err' = r.err
            /\ pc' = Try(r.ok, "done")
    /\ UNCHANGED <<list, dirs, cache, gen, todo, cur, parsers, netCalls, dl,
                   mkdirs, writes, builds, prev>>

\* The extension -> file mapping a written table states.
TableOf(file) ==
    LET arms == {l \in Range(file.lines) : l.kind = "arm"}
    IN  {<<l.extension, l.dfa_bytes>> : l \in arms}

\* cargo runs the build script again over the same OUT_DIR and manifest.
Rebuild ==
    /\ pc \in {"done", "failed"}
    /\ builds < MaxBuilds
    /\ builds' = builds + 1
    /\ prev' = IF pc = "done"
               THEN [ok |-> TRUE, table |-> TableOf(out), gen |-> gen]
               ELSE [ok |-> FALSE, table |-> {}, gen |-> gen]
    /\ pc' = "start"
    /\ todo' = {}
    /\ cur' = ""
    /\ parsers' = EmptyMap
    /\ err' = NoErr
    /\ netCalls' = 0
    /\ dl' = NoCall
    /\ wrote' = {}
    /\ mkdirs' = {}
    /\ writes' = <<>>
    /\ UNCHANGED <<list, dirs, cache, gen, out>>

Next ==
    \/ MainCreateDirs
    \/ ReadList
    \/ \E key \in AllNames : FetchEntry(key)
    \/ GenerateEntry
    \/ PrintTable
    \/ Rebuild

Spec == Init /\ [][Next]_vars

\* Manifests of two tables whose keys may be dotted, with one extension each.
KeyedEntries == {e \in StringEntries : e.extensions \in {{ExtC}, {ExtC, ExtH}}}
KeyedDocuments ==
    UNION {[S -> KeyedEntries] : S \in {T \in SUBSET AllNames : Cardinality(T) = 2}}

InitKeys ==
    /\ list \in {[readable |-> TRUE, table |-> t] : t \in KeyedDocuments}
    /\ cache \in [CachePaths -> {"Missing", "G"}]
    /\ \A p \in CachePaths :
          p \notin AddressedCachePaths(list.table) => cache[p] = "Missing"
    /\ dirs = UNION {ParentDirs(p) : p \in {q \in CachePaths : cache[q] # "Missing"}}
    /\ gen = [p \in GenPaths |-> NoFile]
    /\ out = NoOutput
    /\ pc = "start"
    /\ todo = {}
    /\ cur = ""
    /\ parsers = EmptyMap
    /\ err = NoErr
    /\ netCalls = 0
    /\ dl = NoCall
    /\ wrote = {}
    /\ mkdirs = {}
    /\ writes = <<>>
    /\ builds = 1
    /\ prev = NoPrev

SpecKeys == InitKeys /\ [][Next]_vars

(***************************************************************************)
(* Properties                                                              *)
(***************************************************************************)

\* The last call of download_file found a readable file with the declared digest.
FoundVerified == dl.before \in Contents /\ Sha256Hex(dl.before) = dl.sha256
\* The last call of download_file received a body with another digest.
ReceivedWrong == dl.resp \in RemoteContents /\ Sha256Hex(dl.resp) # dl.sha256

\* C1: a call of download_file that finds a readable file with the declared
\* SHA-256 at dir/<file name of url> returns Ok and performs no transfer.
C1_CacheHitNoNetwork ==
    (dl.called /\ FoundVerified) =>
        /\ dl.ok
        /\ dl.gets = 0
        /\ dl.resp = "None"
        /\ err # WrongShaError

C1_Witness ==
    /\ dl.called /\ FoundVerified
    /\ pc = "generate"
    /\ netCalls = 0

C3_StaleAndWrongRemoteAborts ==
    (dl.called /\ dl.before \in Contents /\ ~FoundVerified /\ ReceivedWrong) =>
        /\ pc = "failed"
        /\ err = WrongShaError
        /\ GeneratedFile(dl.key, dl.url) \notin wrote
        /\ OutputRustFile \notin wrote
        /\ gen[GeneratedFile(dl.key, dl.url)] = prev.gen[GeneratedFile(dl.key, dl.url)]
        /\ dl.key \notin {k \in DOMAIN Toml : \E e \in DOMAIN parsers :
                            parsers[e] = GeneratedFile(k, Toml[k].url)}

C3_Witness ==
    /\ dl.called /\ dl.before \in {"G", "B"} /\ ~FoundVerified /\ ReceivedWrong
    /\ pc = "failed"
    /\ wrote # {}

\* The build has failed in a step of the loop over the entries: the fetch,
\* the integrity check, the grammar parse or the write of the generated file.
EntryFailed ==
    /\ pc = "failed"
    /\ \/ err.variant = "Parse"
       \/ err \in {WrongShaError, OsError("curl"), OsError("create"), OsError("write")}

\* print_grammar_assignment has returned the non alphanumeric extension error.
ExtensionRejected ==
    /\ pc = "failed"
    /\ err.kind = "InvalidData"
    /\ err.msg[1] = "non alphanumeric extension '"

\* C4: if some extension of the collected map has a character outside
\* [A-Za-z0-9], print_grammar_assignment fails, so the build never ends well.
C4_NonAsciiAlnumExtensionFails ==
    pc = "done" =>
        \A e \in DOMAIN parsers : \A i \in DOMAIN e : e[i] \in AsciiAlnum

\* C5: when print_grammar_assignment returns the non alphanumeric extension
\* error, the dispatch table file has not been created or written.
C5_RejectedBeforeAnyOutput ==
    ExtensionRejected => (OutputRustFile \notin wrote /\ ~out.exists)

\* Some table of the manifest gives url and sha256 as lists of different lengths.
ListLengthsDiffer ==
    \E k \in DOMAIN list.table :
        /\ list.table[k].urlArr /\ list.table[k].shaArr
        /\ Len(list.table[k].url) # Len(list.table[k].sha256)

\* C6: a manifest with url and sha256 lists of different lengths makes the
\* build fail with the manifest's decoding error, no transfer performed, no
\* directory created, no file written and no entry processed.
C6_LengthMismatchFailsFirst ==
    (ListLengthsDiffer /\ pc \notin {"start", "load"}) =>
        /\ pc = "failed"
        /\ err.variant = "Toml"
        /\ netCalls = 0
        /\ ~dl.called
        /\ wrote = {}
        /\ mkdirs = {}

\* C7: once a step of an entry has failed, nothing more happens in that
\* build: no file, directory or map changes, no transfer is performed, no
\* entry is taken from the loop; and the dispatch table has not been written.
C7_EveryErrorIsFatal ==
    /\ [](EntryFailed => OutputRustFile \notin wrote)
    /\ [][(err # NoErr /\ builds' = builds) =>
            /\ pc = "failed"
            /\ UNCHANGED <<cache, gen, out, dirs, netCalls, wrote, todo,
                           parsers, dl>>]_vars

C7_Witness ==
    /\ EntryFailed
    /\ todo # {}
    /\ err = ParseError

\* The pairs the manifest declares: each extension of each entry, with the
\* generated file of that entry.
DeclaredPairs ==
    UNION {{<<e, GeneratedFile(k, Toml[k].url)>> : e \in Toml[k].extensions} :
             k \in DOMAIN Toml}

\* C8: after a successful build the arms of the dispatch table are exactly
\* the declared (extension, generated file) pairs.
C8_TableHoldsEveryDeclaredPair ==
    pc = "done" => TableOf(out) = DeclaredPairs

\* C9: a build that follows a successful build over the same manifest and
\* cache performs no transfer and leaves the same dispatch table mapping and
\* the same generated files.
C9_RerunIsIdempotent ==
    (prev.ok /\ pc = "done") =>
        /\ netCalls = 0
        /\ TableOf(out) = prev.table
        /\ gen = prev.gen

\* C10: the error of a download whose digest is wrong names the URL, the
\* entry, the expected digest and the actual digest.
C10_IntegrityErrorCarriesContext ==
    (dl.called /\ ReceivedWrong /\ pc = "failed") =>
        /\ dl.key \in Range(err.msg)
        /\ dl.url.host \in Range(err.msg)
        /\ dl.sha256 \in Range(err.msg)
        /\ Sha256Hex(dl.resp) \in Range(err.msg)

\* C11: whenever download_file has returned Ok, by a cache hit or by a
\* download, the file at dir/<file name> is readable and has the declared
\* digest; after a download it holds the bytes received, whatever was there.
C11_CachePostCondition ==
    (dl.called /\ dl.ok) =>
        LET file == cache[DownloadedFile(dl.key, dl.url)]
        IN /\ file \in Contents
           /\ Sha256Hex(file) = dl.sha256
           /\ dl.gets > 0 => (file = dl.resp /\ DownloadedFile(dl.key, dl.url) \in wrote)

C11_Witness ==
    /\ dl.called /\ dl.ok /\ dl.gets = 1
    /\ dl.before \in {"G", "B", "T"}
    /\ cache[DownloadedFile(dl.key, dl.url)] # dl.before

\* C12: in every build of a sequence, whatever the earlier builds left
\* (a write of the cache file that failed or was cut short leaves the
\* truncated file "T"), the generator runs for an entry only after
\* download_file returned Ok for that entry in this build, and the grammar
\* file it reads has the declared digest; a truncated cache file is fetched
\* again and never parsed.
C12_GeneratorReadsVerifiedGrammar ==
    /\ pc = "generate" =>
          LET file == cache[DownloadedFile(cur, Toml[cur].url)]
          IN /\ dl.called /\ dl.ok /\ dl.key = cur
             /\ file \in Contents
             /\ file # "T"
             /\ Sha256Hex(file) = Toml[cur].sha256
    /\ (dl.called /\ dl.before = "T") => (dl.gets = 1 /\ dl.resp # "None")
    /\ \A k \in DOMAIN list.table :
          (TomlOk(list.table) /\ GeneratedFile(k, Toml[k].url) \in wrote) =>
              /\ k \notin todo
              /\ gen[GeneratedFile(k, Toml[k].url)] \in
                    {<<"dfa">>, EncodedDfa(cache[DownloadedFile(k, Toml[k].url)])}
              /\ Sha256Hex(cache[DownloadedFile(k, Toml[k].url)]) = Toml[k].sha256

C12_Witness ==
    /\ builds = 2
    /\ dl.called /\ dl.before = "T" /\ dl.ok
    /\ pc = "loop"
    /\ GeneratedFile(dl.key, dl.url) \in wrote

\* The entry has been fetched, verified, generated and stored in this build.
Completed(k) ==
    /\ k \notin todo
    /\ Sha256Hex(cache[DownloadedFile(k, Toml[k].url)]) = Toml[k].sha256
    /\ GeneratedFile(k, Toml[k].url) \in wrote
    /\ gen[GeneratedFile(k, Toml[k].url)] =
          EncodedDfa(cache[DownloadedFile(k, Toml[k].url)])

\* C13: the dispatch table file is written only when every entry of the
\* manifest has been completed in this build, and at most once per build:
\* once it is written the build is over and the file does not change again
\* in that build.
C13_TableAfterAllEntries ==
    /\ [](OutputRustFile \in wrote =>
            /\ pc \in {"done", "failed"}
            /\ list.readable /\ TomlOk(list.table)
            /\ todo = {}
            /\ \A k \in DOMAIN Toml : Completed(k))
    /\ [][(OutputRustFile \in wrote /\ builds' = builds) =>
            UNCHANGED <<out, wrote>>]_vars
    /\ [][(out' # out) =>
            (OutputRustFile \notin wrote /\ OutputRustFile \in wrote')]_vars

C13_Witness ==
    /\ OutputRustFile \in wrote
    /\ pc = "done"
    /\ Cardinality(DOMAIN Toml) = 2
    /\ builds = 2

\* C14: no file is written by two distinct entries of the manifest in one
\* build, and each entry writes only in downloaded/<key>/ and
\* generated/<key>/ of its own key.
C14_EntriesWriteDisjointPaths ==
    /\ \A i, j \in DOMAIN writes :
          writes[i].path = writes[j].path => writes[i].key = writes[j].key
    /\ \A i \in DOMAIN writes :
          writes[i].path.dir \in {Join(DownloadedDir, writes[i].key),
                                  Join(GeneratedDir, writes[i].key)}

\* The code point of a character.
CodePoint(ch) ==
    CASE ch = "+" -> 43
      [] ch = "c" -> 99
      [] ch = "h" -> 104
      [] ch = "U+00E9" -> 233

\* x <= y in the order of strings (lexicographic, by code point).
StringLeq(x, y) ==
    \E n \in 0..Len(x) :
        /\ n <= Len(y)
        /\ \A i \in 1..n : x[i] = y[i]
        /\ \/ n = Len(x)
           \/ n < Len(y) /\ CodePoint(x[n + 1]) < CodePoint(y[n + 1])

\* C15: the arms of an emitted dispatch table are in the order of their
\* extension strings, whatever the order the map was iterated in.
C15_TableSortedByExtension ==
    pc = "done" =>
        \A i, j \in DOMAIN out.lines :
            (i < j /\ out.lines[i].kind = "arm" /\ out.lines[j].kind = "arm") =>
                StringLeq(out.lines[i].extension, out.lines[j].extension)

\* C16: a call of download_file that hits the cache does not write the
\* cache file, and a call that fails by a transport error or by a wrong
\* digest of the download leaves the cache path as it found it: a stale file
\* keeps its bytes, a missing file stays missing.
C16_DownloadFileFrame ==
    (dl.called /\ (FoundVerified \/ dl.resp = "NetErr" \/ ReceivedWrong)) =>
        /\ cache[DownloadedFile(dl.key, dl.url)] = dl.before
        /\ DownloadedFile(dl.key, dl.url) \notin wrote
        /\ \A i \in DOMAIN writes : writes[i].path # DownloadedFile(dl.key, dl.url)

C16_Witness ==
    /\ dl.called /\ ReceivedWrong
    /\ dl.before \in {"G", "B", "T"}
    /\ pc = "failed"
    /\ builds = 2

\* The positions of the write log at which an entry declaring `extension`
\* wrote its generated file, and the entry of the last of them.
GeneratedBy(extension) ==
    {i \in DOMAIN writes :
        /\ writes[i].key \in DOMAIN Toml
        /\ extension \in Toml[writes[i].key].extensions
        /\ writes[i].path = GeneratedFile(writes[i].key, Toml[writes[i].key].url)}

LastDeclaring(extension) ==
    writes[CHOOSE i \in GeneratedBy(extension) :
                \A j \in GeneratedBy(extension) : j <= i].key

ArmsFor(extension) ==
    {i \in DOMAIN out.lines :
        out.lines[i].kind = "arm" /\ out.lines[i].extension = extension}

SharedExtensions ==
    {e \in ExtStrings :
        \E k1, k2 \in DOMAIN Toml :
            k1 # k2 /\ e \in Toml[k1].extensions /\ e \in Toml[k2].extensions}

\* C17: a written dispatch table never holds two arms for one extension;
\* after a successful build every declared extension has exactly one arm,
\* which names the generated file of the entry processed last among those
\* declaring it; and an error raised while the table is written is the
\* error of a non-alphanumeric extension, never one about a duplicate.
C17_OneArmPerExtensionLastWins ==
    /\ \A e \in ExtStrings : Cardinality(ArmsFor(e)) <= 1
    /\ pc = "done" =>
          \A k \in DOMAIN Toml : \A e \in Toml[k].extensions :
              /\ Cardinality(ArmsFor(e)) = 1
              /\ GeneratedBy(e) # {}
              /\ \A i \in ArmsFor(e) :
                    out.lines[i].dfa_bytes =
                        GeneratedFile(LastDeclaring(e), Toml[LastDeclaring(e)].url)
    /\ (pc = "failed" /\ OutputRustFile \in wrote) =>
          \E k \in DOMAIN Toml : \E e \in Toml[k].extensions :
              ~AllAlphanumeric(e) /\ err = NonAlphanumericError(e)

C17_Witness ==
    /\ pc = "done"
    /\ SharedExtensions # {}
    /\ \E e \in SharedExtensions : Cardinality(ArmsFor(e)) = 1

=============================================================================
